---- MODULE Spec2Model ----
(***************************************************************************)
(* Model of the SQLite-backed verification queue (app/queue_manager.py)    *)
(* and of the worker processes that drive it (app/worker.py).              *)
(*                                                                         *)
(* The store is one table, verify_jobs, shared by several processes.       *)
(* Every SQL statement is atomic.  A Python sqlite3 connection in its      *)
(* default transaction mode opens a transaction only in front of an        *)
(* INSERT/UPDATE/DELETE, so a SELECT that precedes an UPDATE in the same   *)
(* method is a step of its own: other processes' statements can fall       *)
(* between the two.  dequeue() and fail() are therefore two steps each;    *)
(* enqueue(), complete(), cancel() and cleanup_old_jobs() are one.         *)
(*                                                                         *)
(* Beside the queue the module models the inference gate and client        *)
(* (OllamaOCR.extract_text in app/ocr_backends.py): an exclusive flock on  *)
(* one lock file shared by all processes, polled until a deadline, around  *)
(* one streaming chat request whose failures are classified; and the body  *)
(* of the worker loop (run_worker in app/worker.py) that sits between the  *)
(* queue calls.                                                            *)
(***************************************************************************)
EXTENDS Integers, FiniteSets, Sequences, TLC

\* ------------------------------------------------------------------------
\* Bounds
\* ------------------------------------------------------------------------
MaxJobs == 2
MaxTime == 1
\* the lock wait, counted in poll intervals (30 s of 0.2 s sleeps in the code)
MaxWait == 2
\* images in the one batch job
MaxImages == 2

\* ------------------------------------------------------------------------
\* Program constants and value sets
\* ------------------------------------------------------------------------
max_attempts == 3

Workers    == {"w1", "w2"}
Deployed   == {"w1"}
Errors     == {"timeout"}
TwoErrors  == {"timeout", "boom"}
Results    == {"COMPLIANT"}
Retentions == {0, 1}

NULL     == "NULL"
NullTime == 0 - 1
None     == [id |-> 0, attempts |-> 0, max_attempts |-> 0, status |-> "none"]
NoRet    == [op |-> "none", arg |-> 0, val |-> 0]

\* the batch job store: the background task and the API handler are two
\* threads (or two uvicorn workers) calling the one JobManager
BatchProcs   == {"task", "api"}
ImageResults == {"COMPLIANT", "ERROR"}
Unavailable  == "Ollama backend unavailable"
NoSummary    == [total |-> 0 - 1, errors |-> 0 - 1]
NoResult     == [image |-> 0, status |-> "none"]
NoFile       == [status |-> "absent", results |-> <<>>, processed_images |-> 0,
                 summary |-> NoSummary, error |-> NULL]
NoCall       == [op |-> "none", status |-> NULL, summary |-> NoSummary,
                 error |-> NULL, result |-> NoResult, data |-> NoFile]

Terminal == {"completed", "failed", "cancelled"}
Statuses == {"pending", "processing"} \cup Terminal

\* processes (or threads) that call extract_text against the one lock file
Callers == {"p1", "p2"}

\* an exception of the chat call: the words of its class name, the words of
\* its message, and the phase of the request in which it is raised
NoExc == [name |-> <<>>, msg |-> <<>>, phase |-> "none"]
ChatErrors ==
    {[name |-> <<"Read", "Timeout">>, msg |-> <<"timed", "out">>,
      phase |-> "read"],
     [name |-> <<"Connect", "Timeout">>, msg |-> <<"timed", "out">>,
      phase |-> "connect"],
     [name |-> <<"Connect", "Error">>, msg |-> <<"Connection", "refused">>,
      phase |-> "connect"],
     [name |-> <<"Remote", "Protocol", "Error">>,
      msg |-> <<"Server", "disconnected">>, phase |-> "read"],
     [name |-> <<"Response", "Error">>, msg |-> <<"Gateway", "Timeout">>,
      phase |-> "read"],
     [name |-> <<"Response", "Error">>, msg |-> <<"model", "not", "found">>,
      phase |-> "read"]}

\* what extract_text hands to validate_label: success, or a failure dict
\* (no output within the timeout, backend unreachable, gate busy, backend
\* not ready)
OcrFailures == {"timeout", "connection", "busy", "not ready"}
OcrResults  == {"ok"} \cup OcrFailures

\* messages of the exceptions run_worker catches
InitError     == "Failed to initialise LabelValidator"
PipelineErrors == {"Read timeout", "boom"}
StoreError    == "database is locked"

\* how an extract_text call ended: kind "return" with the dict's success,
\* error and error_type (NULL: the dict has no such key), or kind "raise"
NoOut == [kind |-> "none", success |-> FALSE, error |-> NULL, error_type |-> NULL]

VARIABLES
    jobs,       \* the verify_jobs table: job id -> row
    nextId,     \* next fresh job id (ids are never reused)
    now,        \* the wall clock read by time.time()
    pc,         \* per worker: position in the loop / inside a queue call
    row,        \* per worker: the row fetched by the SELECT of dequeue()/fail()
    job,        \* per worker: the dict returned by dequeue()
    tnow,       \* per worker: the `now` local of fail()
    errarg,     \* per worker: the `error` argument of fail()
    ret,        \* what the call made in the last step returned (cancel, cleanup_old_jobs)
    nfail,      \* per job id: how many times the worker has reported fail() for it
    lock,       \* the flock on /tmp/ollama_inference.lock: its holder, or NULL
    epc,        \* per caller: position inside extract_text
    elapsed,    \* per caller: time.time() - (lock_deadline - 30), in poll intervals
    sent,       \* per caller: chat requests sent to the backend by the current call
    exc,        \* per caller: the exception the chat call raised
    out,        \* per caller: how the last extract_text call ended
    validator,  \* per worker: run_worker's `validator` is not None
    stage,      \* per worker: position in the body of run_worker's loop
    err,        \* per worker: run_worker's `err` local
    ocr,        \* per worker: how extract_text ended for the claimed job
    nrun,       \* per worker: process_job calls made for the current claim
    nreport,    \* per worker: complete()/fail() calls that updated the row
                \* for the current claim
    bfile,      \* the batch job file <job_id>.json: the stored job, or NoFile
    bcall,      \* per process: the JobManager call that has read the file
                \* and has not written it yet
    btask,      \* the locals of the background task process_batch_job
    bdel        \* the locals of the handler delete_batch_job

qvars == <<jobs, nextId, now, pc, row, job, tnow, errarg, ret, nfail>>
gvars == <<lock, epc, elapsed, sent, exc, out>>
lvars == <<validator, stage, err, ocr, nrun, nreport>>
bvars == <<bfile, bcall, btask, bdel>>

vars == <<jobs, nextId, now, pc, row, job, tnow, errarg, ret, nfail,
          lock, epc, elapsed, sent, exc, out,
          validator, stage, err, ocr, nrun, nreport,
          bfile, bcall, btask, bdel>>

Ids == 1..MaxJobs

Exists(j) == j \in DOMAIN jobs

\* ------------------------------------------------------------------------
\* Init: the state after QueueManager.__init__ / _init_db on a fresh DB
\* ------------------------------------------------------------------------
Init ==
    /\ jobs = <<>>
    /\ nextId = 1
    /\ now = 0
    /\ pc = [w \in Workers |-> "idle"]
    /\ row = [w \in Workers |-> None]
    /\ job = [w \in Workers |-> None]
    /\ tnow = [w \in Workers |-> 0]
    /\ errarg = [w \in Workers |-> NULL]
    /\ ret = NoRet
    /\ nfail = [j \in Ids |-> 0]
    /\ lock = NULL
    /\ epc = [c \in Callers |-> "idle"]
    /\ elapsed = [c \in Callers |-> 0]
    /\ sent = [c \in Callers |-> 0]
    /\ exc = [c \in Callers |-> NoExc]
    /\ out = [c \in Callers |-> NoOut]
    /\ validator = [w \in Workers |-> FALSE]
    /\ stage = [w \in Workers |-> "top"]
    /\ err = [w \in Workers |-> NULL]
    /\ ocr = [w \in Workers |-> "none"]
    /\ nrun = [w \in Workers |-> 0]
    /\ nreport = [w \in Workers |-> 0]
    /\ bfile = NoFile
    /\ bcall = [p \in BatchProcs |-> NoCall]
    /\ btask = [pc |-> "none", i |-> 1, result |-> NoResult,
                summary |-> NoSummary]
    /\ bdel = [pc |-> "idle", job |-> NoFile]

\* time.time() advances between calls
Tick ==
    /\ now < MaxTime
    /\ now' = now + 1
    /\ ret' = NoRet
    /\ UNCHANGED <<jobs, nextId, pc, row, job, tnow, errarg, nfail>>

\* ------------------------------------------------------------------------
\* enqueue(): one INSERT
\* ------------------------------------------------------------------------
\* (variant: the INSERT writes the row as already claimed)
NewRow_Claimed(id) ==
    [id |-> id, status |-> "processing", attempts |-> 1,
     max_attempts |-> max_attempts, result |-> NULL, error |-> NULL,
     created_at |-> now, updated_at |-> now, completed_at |-> NullTime]

NewRow(id) ==
    [id |-> id, status |-> "pending", attempts |-> 0,
     max_attempts |-> max_attempts, result |-> NULL, error |-> NULL,
     created_at |-> now, updated_at |-> now, completed_at |-> NullTime]

enqueue ==
    /\ nextId <= MaxJobs
    /\ jobs' = jobs @@ (nextId :> NewRow(nextId))
    /\ nextId' = nextId + 1
    /\ ret' = NoRet
    /\ UNCHANGED <<now, pc, row, job, tnow, errarg, nfail>>

\* ------------------------------------------------------------------------
\* dequeue(): SELECT ... WHERE status='pending' ORDER BY created_at LIMIT 1,
\* then UPDATE ... WHERE id = ?
\* ------------------------------------------------------------------------
Pending == {j \in DOMAIN jobs : jobs[j].status = "pending"}

\* ORDER BY created_at ASC LIMIT 1.  Rows with equal created_at come out in
\* rowid (insertion) order: the scan of idx_status yields them by rowid and
\* the sort keeps that order.  Job ids are handed out in insertion order.
\* (variant: ORDER BY created_at DESC)
Oldest_Descending(S) ==
    CHOOSE j \in S : \A k \in S :
        \/ jobs[j].created_at > jobs[k].created_at
        \/ (jobs[j].created_at = jobs[k].created_at /\ j <= k)

\* (variant: ORDER BY updated_at ASC)
Oldest_ByUpdatedAt(S) ==
    CHOOSE j \in S : \A k \in S :
        \/ jobs[j].updated_at < jobs[k].updated_at
        \/ (jobs[j].updated_at = jobs[k].updated_at /\ j <= k)

Oldest(S) ==
    CHOOSE j \in S : \A k \in S :
        \/ jobs[j].created_at < jobs[k].created_at
        \/ (jobs[j].created_at = jobs[k].created_at /\ j <= k)

Snapshot(j) ==
    [id |-> j, attempts |-> jobs[j].attempts,
     max_attempts |-> jobs[j].max_attempts, status |-> jobs[j].status]

\* the SELECT; `row is None` returns None at once
dequeue_select(w) ==
    /\ pc[w] = "idle"
    /\ IF Pending = {}
         THEN /\ job' = [job EXCEPT ![w] = None]
              /\ UNCHANGED <<pc, row>>
         ELSE /\ row' = [row EXCEPT ![w] = Snapshot(Oldest(Pending))]
              /\ pc' = [pc EXCEPT ![w] = "dequeue_update"]
              /\ UNCHANGED job
    /\ ret' = NoRet
    /\ UNCHANGED <<jobs, nextId, now, tnow, errarg, nfail>>

\* the UPDATE (matches on id alone) and the dict built from the fetched row
dequeue_update(w) ==
    /\ pc[w] = "dequeue_update"
    /\ jobs' = IF Exists(row[w].id)
                 THEN [jobs EXCEPT ![row[w].id] =
                         [@ EXCEPT !.status = "processing",
                                   !.attempts = @ + 1,
                                   !.updated_at = now]]
                 ELSE jobs
    /\ job' = [job EXCEPT ![w] =
                 [row[w] EXCEPT !.attempts = @ + 1, !.status = "processing"]]
    /\ pc' = [pc EXCEPT ![w] = "process_job"]
    /\ row' = [row EXCEPT ![w] = None]
    /\ ret' = NoRet
    /\ UNCHANGED <<nextId, now, tnow, errarg, nfail>>

\* ------------------------------------------------------------------------
\* complete(): one UPDATE ... WHERE id = ?
\* ------------------------------------------------------------------------
complete(w, result) ==
    /\ pc[w] = "process_job"
    /\ jobs' = IF Exists(job[w].id)
                 THEN [jobs EXCEPT ![job[w].id] =
                         [@ EXCEPT !.status = "completed",
                                   !.result = result,
                                   !.error = NULL,
                                   !.updated_at = now,
                                   !.completed_at = now]]
                 ELSE jobs
    /\ pc' = [pc EXCEPT ![w] = "idle"]
    /\ job' = [job EXCEPT ![w] = None]
    /\ ret' = NoRet
    /\ UNCHANGED <<nextId, now, row, tnow, errarg, nfail>>

\* ------------------------------------------------------------------------
\* fail(): SELECT attempts, max_attempts ... WHERE id = ?, then one of two
\* UPDATEs ... WHERE id = ?
\* ------------------------------------------------------------------------
fail_select(w, error) ==
    /\ pc[w] = "process_job"
    /\ IF Exists(job[w].id)
         THEN /\ row' = [row EXCEPT ![w] = Snapshot(job[w].id)]
              /\ tnow' = [tnow EXCEPT ![w] = now]
              /\ errarg' = [errarg EXCEPT ![w] = error]
              /\ pc' = [pc EXCEPT ![w] = "fail_update"]
              /\ UNCHANGED job
         ELSE /\ pc' = [pc EXCEPT ![w] = "idle"]
              /\ job' = [job EXCEPT ![w] = None]
              /\ UNCHANGED <<row, tnow, errarg>>
    /\ nfail' = [nfail EXCEPT ![job[w].id] = @ + 1]
    /\ ret' = NoRet
    /\ UNCHANGED <<jobs, nextId, now>>

\* (variant: the requeue branch only)
FailedRow_NeverFinal(r, error, t) ==
    [status |-> "pending", error |-> error, updated_at |-> t]

\* (variant: attempts <= max_attempts)
FailedRow_OffByOne(r, error, t) ==
    IF r.attempts <= r.max_attempts
      THEN [status |-> "pending", error |-> error, updated_at |-> t]
      ELSE [status |-> "failed", error |-> error, updated_at |-> t,
            completed_at |-> t]

FailedRow(r, error, t) ==
    IF r.attempts < r.max_attempts
      THEN [status |-> "pending", error |-> error, updated_at |-> t]
      ELSE [status |-> "failed", error |-> error, updated_at |-> t,
            completed_at |-> t]

Overwrite(old, new) ==
    [f \in DOMAIN old |-> IF f \in DOMAIN new THEN new[f] ELSE old[f]]

fail_update(w) ==
    /\ pc[w] = "fail_update"
    /\ jobs' = IF Exists(row[w].id)
                 THEN [jobs EXCEPT ![row[w].id] =
                         Overwrite(@, FailedRow(row[w], errarg[w], tnow[w]))]
                 ELSE jobs
    /\ pc' = [pc EXCEPT ![w] = "idle"]
    /\ row' = [row EXCEPT ![w] = None]
    /\ job' = [job EXCEPT ![w] = None]
    /\ tnow' = [tnow EXCEPT ![w] = 0]
    /\ errarg' = [errarg EXCEPT ![w] = NULL]
    /\ ret' = NoRet
    /\ UNCHANGED <<nextId, now, nfail>>

\* ------------------------------------------------------------------------
\* cancel(): one UPDATE ... WHERE id = ? AND status = 'pending'
\* ------------------------------------------------------------------------
\* (variant: the UPDATE without its status condition)
CancelMatches_AnyStatus(j) == Exists(j)

CancelMatches(j) == Exists(j) /\ jobs[j].status = "pending"

cancel(j) ==
    /\ jobs' = IF CancelMatches(j)
                 THEN [jobs EXCEPT ![j] =
                         [@ EXCEPT !.status = "cancelled", !.updated_at = now]]
                 ELSE jobs
    \* cursor.rowcount > 0, as 1 (True) or 0 (False)
    /\ ret' = [op |-> "cancel", arg |-> j, val |-> IF CancelMatches(j) THEN 1 ELSE 0]
    /\ UNCHANGED <<nextId, now, pc, row, job, tnow, errarg, nfail>>

\* ------------------------------------------------------------------------
\* cleanup_old_jobs(): one DELETE ... WHERE status IN (...) AND updated_at < ?
\* ------------------------------------------------------------------------
\* (variant: the DELETE compares completed_at)
CleanupMatches_ByCompletedAt(j, cutoff) ==
    /\ jobs[j].status \in {"completed", "failed", "cancelled"}
    /\ jobs[j].completed_at # NullTime
    /\ jobs[j].completed_at < cutoff

\* (variant: the DELETE without its status condition)
CleanupMatches_AnyStatus(j, cutoff) ==
    jobs[j].updated_at < cutoff

CleanupMatches(j, cutoff) ==
    /\ jobs[j].status \in {"completed", "failed", "cancelled"}
    /\ jobs[j].updated_at < cutoff

cleanup_old_jobs(retention_seconds) ==
    LET cutoff  == now - retention_seconds
        deleted == {j \in DOMAIN jobs : CleanupMatches(j, cutoff)}
    IN  /\ jobs' = [j \in DOMAIN jobs \ deleted |-> jobs[j]]
        /\ ret' = [op |-> "cleanup", arg |-> retention_seconds,
                   val |-> Cardinality(deleted)]
        /\ UNCHANGED <<nextId, now, pc, row, job, tnow, errarg, nfail>>

\* ------------------------------------------------------------------------
\* OllamaOCR.extract_text(): readiness check, lock gate, one chat request
\* ------------------------------------------------------------------------
Returned(success, error, error_type) ==
    [kind |-> "return", success |-> success, error |-> error,
     error_type |-> error_type]

Raised == [kind |-> "raise", success |-> FALSE, error |-> NULL, error_type |-> NULL]

\* `sub in s`, on words
Infix(sub, s) ==
    \E i \in 0..(Len(s) - Len(sub)) : SubSeq(s, i + 1, i + Len(sub)) = sub

\* str.lower(), on the words that occur in the messages
LowerWord(word) ==
    CASE word = "Timeout"    -> "timeout"
      [] word = "Gateway"    -> "gateway"
      [] word = "Connection" -> "connection"
      [] word = "Server"     -> "server"
      [] word = "Cannot"     -> "cannot"
      [] word = "Read"       -> "read"
      [] word = "Failed"     -> "failed"
      [] word = "LabelValidator" -> "labelvalidator"
      [] OTHER               -> word

lower(s) == [i \in DOMAIN s |-> LowerWord(s[i])]

is_timeout(e) ==
    \/ Infix(<<"Read", "Timeout">>, e.name)
    \/ Infix(<<"Connect", "Timeout">>, e.name)
    \/ Infix(<<"Timeout", "Exception">>, e.name)
    \/ Infix(<<"timeout">>, lower(e.msg))

is_connection(e) ==
    \/ Infix(<<"Connect", "Error">>, e.name)
    \/ Infix(<<"Remote", "Protocol", "Error">>, e.name)
    \/ Infix(<<"Cannot", "connect">>, e.msg)

\* the failure dict of the except branch: is_timeout is tested first
Classified(e) ==
    IF is_timeout(e)
      THEN Returned(FALSE, "timed out", "timeout")
      ELSE IF is_connection(e)
        THEN Returned(FALSE, "cannot connect", "connection")
        ELSE Returned(FALSE, "extraction error", "error")

\* the call begins: _ensure_available() looks for the sentinel file; without
\* it the failure dict is returned at once
extract_text(c) ==
    /\ epc[c] = "idle"
    /\ \E healthy \in BOOLEAN :
          IF healthy
            THEN /\ epc' = [epc EXCEPT ![c] = "gate"]
                 /\ out' = [out EXCEPT ![c] = NoOut]
            ELSE /\ out' = [out EXCEPT ![c] = Returned(FALSE, "not ready", NULL)]
                 /\ UNCHANGED epc
    /\ elapsed' = [elapsed EXCEPT ![c] = 0]
    /\ sent' = [sent EXCEPT ![c] = 0]
    /\ UNCHANGED <<lock, exc>>

\* flock(lock_fd, LOCK_EX | LOCK_NB) on the caller's own open file: granted
\* when no other open file holds the lock
\* (variant: a shared lock, granted beside any holder)
flock_Shared(c) == TRUE

flock(c) == lock = NULL

\* time.sleep(0.2): the clock read next is at least one interval later
\* (variant: a sleep that lets no time pass)
AfterSleep_NoTime(t) == {t}

AfterSleep(t) == (t + 1)..MaxWait

\* one round of `while time.time() < lock_deadline`: past the deadline the
\* busy dict is returned; else the lock is tried and, when refused, slept on
try_lock(c) ==
    /\ epc[c] = "gate"
    /\ IF elapsed[c] >= MaxWait
         THEN /\ out' = [out EXCEPT ![c] = Returned(FALSE, "busy", "busy")]
              /\ epc' = [epc EXCEPT ![c] = "idle"]
              /\ elapsed' = [elapsed EXCEPT ![c] = 0]
              /\ UNCHANGED lock
         ELSE IF flock(c)
           THEN /\ lock' = c
                /\ epc' = [epc EXCEPT ![c] = "locked"]
                /\ elapsed' = [elapsed EXCEPT ![c] = 0]
                /\ UNCHANGED out
           ELSE /\ \E t \in AfterSleep(elapsed[c]) :
                      elapsed' = [elapsed EXCEPT ![c] = t]
                /\ UNCHANGED <<lock, epc, out>>
    /\ UNCHANGED <<sent, exc>>

\* finally: flock(lock_fd, LOCK_UN); lock_fd.close()
\* (variant: the lock is left as it is)
finally_unlock_Skipped(c) == lock

finally_unlock(c) == IF lock = c THEN NULL ELSE lock

\* every branch of the except handler returns: the call is over
\* (variant: a timeout sends the request again)
AfterClassified_Retry(error_type) ==
    IF error_type = "timeout" THEN "locked" ELSE "idle"

AfterClassified(error_type) == "idle"

\* _do_extract() up to the request: a missing image returns a failure dict
\* (and the finally releases the lock); else the chat request is sent
do_extract(c) ==
    /\ epc[c] = "locked"
    /\ \E image_exists \in BOOLEAN :
          IF image_exists
            THEN /\ sent' = [sent EXCEPT ![c] = @ + 1]
                 /\ epc' = [epc EXCEPT ![c] = "chat"]
                 /\ UNCHANGED <<lock, out>>
            ELSE /\ out' = [out EXCEPT ![c] =
                              Returned(FALSE, "image not found", NULL)]
                 /\ epc' = [epc EXCEPT ![c] = "idle"]
                 /\ lock' = finally_unlock(c)
                 /\ UNCHANGED sent
    /\ UNCHANGED <<elapsed, exc>>

\* the stream ends: the success dict is returned, the finally releases
chat_returns(c) ==
    /\ epc[c] = "chat"
    /\ out' = [out EXCEPT ![c] = Returned(TRUE, NULL, NULL)]
    /\ epc' = [epc EXCEPT ![c] = "idle"]
    /\ lock' = finally_unlock(c)
    /\ UNCHANGED <<elapsed, sent, exc>>

\* the chat call raises an Exception: control enters the except handler
chat_raises(c, e) ==
    /\ epc[c] = "chat"
    /\ exc' = [exc EXCEPT ![c] = e]
    /\ epc' = [epc EXCEPT ![c] = "except"]
    /\ UNCHANGED <<lock, elapsed, sent, out>>

\* the except handler classifies the exception and returns its dict; the
\* finally releases
classify(c) ==
    /\ epc[c] = "except"
    /\ out' = [out EXCEPT ![c] = Classified(exc[c])]
    /\ epc' = [epc EXCEPT ![c] = AfterClassified(Classified(exc[c]).error_type)]
    /\ exc' = [exc EXCEPT ![c] = NoExc]
    /\ lock' = finally_unlock(c)
    /\ UNCHANGED <<elapsed, sent>>

\* a BaseException that `except Exception` does not catch (KeyboardInterrupt,
\* SystemExit) leaves _do_extract; the finally releases on the way out
chat_interrupted(c) ==
    /\ epc[c] = "chat"
    /\ out' = [out EXCEPT ![c] = Raised]
    /\ epc' = [epc EXCEPT ![c] = "idle"]
    /\ lock' = finally_unlock(c)
    /\ UNCHANGED <<elapsed, sent, exc>>

\* ------------------------------------------------------------------------
\* run_worker(): the body of the loop, between the queue calls
\* ------------------------------------------------------------------------
\* the words of a message
Words(message) ==
    CASE message = "Read timeout"       -> <<"Read", "timeout">>
      [] message = "boom"               -> <<"boom">>
      [] message = "database is locked" -> <<"database", "is", "locked">>
      [] OTHER -> <<"Failed", "to", "initialise", "LabelValidator">>

\* any(kw in err.lower() for kw in (...))
Keywords ==
    {<<"timeout">>, <<"connect">>, <<"connection">>, <<"read", "error">>,
     <<"eof">>}

discards_validator(message) ==
    \E kw \in Keywords : Infix(kw, lower(Words(message)))

\* validate_label(): a failed OCR step is returned as a result dict with
\* status ERROR; nothing is raised for it
validate_label(o) == IF o = "ok" THEN "COMPLIANT" ELSE "ERROR"

\* the locals of a worker process that is gone
Gone(w) ==
    /\ pc' = [pc EXCEPT ![w] = "idle"]
    /\ row' = [row EXCEPT ![w] = None]
    /\ job' = [job EXCEPT ![w] = None]
    /\ tnow' = [tnow EXCEPT ![w] = 0]
    /\ errarg' = [errarg EXCEPT ![w] = NULL]
    /\ ret' = NoRet
    /\ err' = [err EXCEPT ![w] = NULL]
    /\ ocr' = [ocr EXCEPT ![w] = "none"]
    /\ UNCHANGED <<jobs, nextId, now, nfail, nrun, nreport>>

\* job = queue.dequeue(): the SELECT
run_dequeue_select(w) ==
    /\ stage[w] = "top"
    /\ dequeue_select(w)
    /\ UNCHANGED lvars

\* job = queue.dequeue(): the UPDATE; job_id = job["id"]
run_dequeue_update(w) ==
    /\ stage[w] = "top"
    /\ dequeue_update(w)
    /\ stage' = [stage EXCEPT ![w] = "claimed"]
    /\ nrun' = [nrun EXCEPT ![w] = 0]
    /\ nreport' = [nreport EXCEPT ![w] = 0]
    /\ UNCHANGED <<validator, err, ocr>>

\* if validator is None: LabelValidator(...) returns or raises
lazy_init(w) ==
    /\ stage[w] = "claimed"
    /\ IF validator[w]
         THEN /\ stage' = [stage EXCEPT ![w] = "ready"]
              /\ UNCHANGED <<validator, err>>
         ELSE \E built \in BOOLEAN :
                IF built
                  THEN /\ validator' = [validator EXCEPT ![w] = TRUE]
                       /\ stage' = [stage EXCEPT ![w] = "ready"]
                       /\ UNCHANGED err
                  ELSE /\ err' = [err EXCEPT ![w] = InitError]
                       /\ stage' = [stage EXCEPT ![w] = "init_failed"]
                       /\ UNCHANGED validator
    /\ UNCHANGED <<qvars, ocr, nrun, nreport>>

\* where the loop stands once fail()'s SELECT has run: fail() returns at
\* once when the row is gone
AfterFailSelect(w) == IF Exists(job[w].id) THEN "failing" ELSE "top"

\* except of the lazy init: queue.fail(job_id, err), up to its SELECT
init_failure(w) ==
    /\ stage[w] = "init_failed"
    /\ fail_select(w, err[w])
    /\ stage' = [stage EXCEPT ![w] = AfterFailSelect(w)]
    /\ err' = [err EXCEPT ![w] = NULL]
    /\ UNCHANGED <<validator, ocr, nrun, nreport>>

\* result = process_job(job, validator): one validate_label call, which
\* returns a dict whatever extract_text returned
process_job(w) ==
    /\ stage[w] = "ready"
    /\ \E o \in OcrResults : ocr' = [ocr EXCEPT ![w] = o]
    /\ nrun' = [nrun EXCEPT ![w] = @ + 1]
    /\ stage' = [stage EXCEPT ![w] = "result"]
    /\ UNCHANGED <<qvars, validator, err, nreport>>

\* process_job raises (anything in the pipeline after the OCR step)
process_job_raises(w, message) ==
    /\ stage[w] = "ready"
    /\ ocr' = [ocr EXCEPT ![w] = "ok"]
    /\ nrun' = [nrun EXCEPT ![w] = @ + 1]
    /\ err' = [err EXCEPT ![w] = message]
    /\ stage' = [stage EXCEPT ![w] = "except"]
    /\ UNCHANGED <<qvars, validator, nreport>>

\* queue.complete(job_id, result) returns
run_complete(w) ==
    /\ stage[w] = "result"
    /\ nreport' = [nreport EXCEPT ![w] =
                     IF Exists(job[w].id) THEN @ + 1 ELSE @]
    /\ complete(w, validate_label(ocr[w]))
    /\ stage' = [stage EXCEPT ![w] = "top"]
    /\ ocr' = [ocr EXCEPT ![w] = "none"]
    /\ UNCHANGED <<validator, err, nrun>>

\* queue.complete(job_id, result) raises: the UPDATE is rolled back and the
\* except branch of the same try runs
complete_raises(w) ==
    /\ stage[w] = "result"
    /\ err' = [err EXCEPT ![w] = StoreError]
    /\ stage' = [stage EXCEPT ![w] = "except"]
    /\ UNCHANGED <<qvars, validator, ocr, nrun, nreport>>

\* except Exception: the validator is dropped on a connection-like message,
\* then queue.fail(job_id, err), up to its SELECT
except_handler(w) ==
    /\ stage[w] = "except"
    /\ validator' = [validator EXCEPT ![w] =
                       IF discards_validator(err[w]) THEN FALSE ELSE @]
    /\ fail_select(w, err[w])
    /\ stage' = [stage EXCEPT ![w] = AfterFailSelect(w)]
    /\ err' = [err EXCEPT ![w] = NULL]
    /\ ocr' = [ocr EXCEPT ![w] = "none"]
    /\ UNCHANGED <<nrun, nreport>>

\* queue.fail(job_id, err): the UPDATE
run_fail_update(w) ==
    /\ stage[w] = "failing"
    /\ nreport' = [nreport EXCEPT ![w] =
                     IF Exists(row[w].id) THEN @ + 1 ELSE @]
    /\ fail_update(w)
    /\ stage' = [stage EXCEPT ![w] = "top"]
    /\ UNCHANGED <<validator, err, ocr, nrun>>

\* queue.fail(job_id, err) raises (at its SELECT or at its UPDATE, which is
\* rolled back).  Neither call of fail() stands inside a try: the exception
\* leaves `while True` and run_worker, and the process ends.
fail_raises(w) ==
    /\ stage[w] \in {"init_failed", "except", "failing"}
    /\ stage' = [stage EXCEPT ![w] = "exited"]
    /\ Gone(w)
    /\ UNCHANGED validator

\* the worker process is killed
crash(w) ==
    /\ stage[w] \notin {"exited", "killed"}
    /\ stage' = [stage EXCEPT ![w] = "killed"]
    /\ Gone(w)
    /\ UNCHANGED validator

\* a worker process is started (again): run_worker from its first line
restart(w) ==
    /\ stage[w] \in {"exited", "killed"}
    /\ stage' = [stage EXCEPT ![w] = "top"]
    /\ validator' = [validator EXCEPT ![w] = FALSE]
    /\ UNCHANGED <<qvars, err, ocr, nrun, nreport>>

\* ------------------------------------------------------------------------
\* Specifications
\* ------------------------------------------------------------------------
\* the admission side: any process may call these at any time
Api ==
    \/ Tick /\ UNCHANGED <<gvars, lvars, bvars>>
    \/ enqueue /\ UNCHANGED <<gvars, lvars, bvars>>
    \/ \E j \in Ids : cancel(j) /\ UNCHANGED <<gvars, lvars, bvars>>
    \/ \E r \in Retentions : cleanup_old_jobs(r) /\ UNCHANGED <<gvars, lvars, bvars>>

\* run_worker(): dequeue, then exactly one of complete / fail; errs are the
\* failure messages the processing step can end with
Worker(w, errs) ==
    \/ dequeue_select(w) /\ UNCHANGED <<gvars, lvars, bvars>>
    \/ dequeue_update(w) /\ UNCHANGED <<gvars, lvars, bvars>>
    \/ \E result \in Results : complete(w, result) /\ UNCHANGED <<gvars, lvars, bvars>>
    \/ \E error \in errs : fail_select(w, error) /\ UNCHANGED <<gvars, lvars, bvars>>
    \/ fail_update(w) /\ UNCHANGED <<gvars, lvars, bvars>>

\* The system as deployed: one worker process, the admission side beside it.
Next == Api \/ \E w \in Deployed : Worker(w, Errors)

Spec == Init /\ [][Next]_vars

\* Several processes calling dequeue() against the same store.
NextConc ==
    \/ enqueue /\ UNCHANGED <<gvars, lvars, bvars>>
    \/ \E w \in Workers : Worker(w, Errors)

SpecConc == Init /\ [][NextConc]_vars

\* One worker driving jobs through claim/report cycles, nothing else touching
\* the jobs; successive failures may carry different messages.
NextCycles ==
    \/ Tick /\ UNCHANGED <<gvars, lvars, bvars>>
    \/ enqueue /\ UNCHANGED <<gvars, lvars, bvars>>
    \/ \E w \in Deployed : Worker(w, TwoErrors)

SpecCycles == Init /\ [][NextCycles]_vars

\* One worker process running the whole loop body; jobs are enqueued beside
\* it.  Queue calls made after the claim may raise.
run_worker(w) ==
    \/ run_dequeue_select(w) /\ UNCHANGED <<gvars, bvars>>
    \/ run_dequeue_update(w) /\ UNCHANGED <<gvars, bvars>>
    \/ lazy_init(w) /\ UNCHANGED <<gvars, bvars>>
    \/ init_failure(w) /\ UNCHANGED <<gvars, bvars>>
    \/ process_job(w) /\ UNCHANGED <<gvars, bvars>>
    \/ \E message \in PipelineErrors :
          process_job_raises(w, message) /\ UNCHANGED <<gvars, bvars>>
    \/ run_complete(w) /\ UNCHANGED <<gvars, bvars>>
    \/ complete_raises(w) /\ UNCHANGED <<gvars, bvars>>
    \/ except_handler(w) /\ UNCHANGED <<gvars, bvars>>
    \/ run_fail_update(w) /\ UNCHANGED <<gvars, bvars>>
    \/ fail_raises(w) /\ UNCHANGED <<gvars, bvars>>

NextLoop ==
    \/ enqueue /\ UNCHANGED <<gvars, lvars, bvars>>
    \/ \E w \in Deployed : run_worker(w)

SpecLoop == Init /\ [][NextLoop]_vars

\* The same with a worker process that is scheduled fairly: whenever its
\* loop can take its next step, it eventually does.
SpecLoopFair == SpecLoop /\ \A w \in Deployed : WF_vars(run_worker(w))

\* The same, with the worker process killed at any point and started again.
\* A started worker keeps running its loop, and a stopped one is started
\* again; nothing else is assumed.
NextCrash ==
    \/ NextLoop
    \/ \E w \in Deployed : crash(w) /\ UNCHANGED <<gvars, bvars>>
    \/ \E w \in Deployed : restart(w) /\ UNCHANGED <<gvars, bvars>>

SpecCrashFair ==
    /\ Init /\ [][NextCrash]_vars
    /\ \A w \in Deployed : WF_vars(run_worker(w))
    /\ \A w \in Deployed : WF_vars(restart(w) /\ UNCHANGED <<gvars, bvars>>)

\* Several processes calling extract_text against the one lock file and the
\* one backend.  A holder may stay inside the chat call for any time.
Gate(c) ==
    \/ extract_text(c) /\ UNCHANGED <<qvars, lvars, bvars>>
    \/ try_lock(c) /\ UNCHANGED <<qvars, lvars, bvars>>
    \/ do_extract(c) /\ UNCHANGED <<qvars, lvars, bvars>>
    \/ chat_returns(c) /\ UNCHANGED <<qvars, lvars, bvars>>
    \/ \E e \in ChatErrors : chat_raises(c, e) /\ UNCHANGED <<qvars, lvars, bvars>>
    \/ classify(c) /\ UNCHANGED <<qvars, lvars, bvars>>
    \/ chat_interrupted(c) /\ UNCHANGED <<qvars, lvars, bvars>>

NextGate == \E c \in Callers : Gate(c)

SpecGate == Init /\ [][NextGate]_vars

\* A caller in the wait loop is scheduled again and again: its sleep returns
\* and the next round of the loop runs.  Nothing makes a holder release.
SpecGateFair ==
    SpecGate /\ \A c \in Callers : WF_vars(try_lock(c) /\ UNCHANGED <<qvars, lvars, bvars>>)

\* ========================================================================
\* The batch job store (JobManager) and its two callers
\* ========================================================================
\* BatchJob(status=PENDING, processed_images=0, results=[]) as create_job
\* writes it
NewJob ==
    [status |-> "pending", results |-> <<>>, processed_images |-> 0,
     summary |-> NoSummary, error |-> NULL]

\* what update_job / append_result do to the job they have read
Modified(c, j) ==
    IF c.op = "append"
      THEN [j EXCEPT !.results = Append(@, c.result),
                     !.processed_images = Len(j.results) + 1]
      ELSE [j EXCEPT !.status = IF c.status # NULL THEN c.status ELSE @,
                     !.summary = IF c.summary # NoSummary
                                   THEN c.summary ELSE @,
                     !.error = IF c.error # NULL THEN c.error ELSE @]

\* update_job up to and including _read_job_file; `if not job_path.exists():
\* return False` leaves nothing pending
update_job(p, status, summary, error) ==
    bcall' = [bcall EXCEPT ![p] =
                IF bfile = NoFile
                  THEN NoCall
                  ELSE [op |-> "update", status |-> status,
                        summary |-> summary, error |-> error,
                        result |-> NoResult, data |-> bfile]]

\* append_result up to and including _read_job_file
append_result(p, result) ==
    bcall' = [bcall EXCEPT ![p] =
                IF bfile = NoFile
                  THEN NoCall
                  ELSE [op |-> "append", status |-> NULL,
                        summary |-> NoSummary, error |-> NULL,
                        result |-> result, data |-> bfile]]

\* the rest of update_job / append_result: the fields are changed on the job
\* that was read and _write_job_file writes <job_id>.tmp and renames it to
\* <job_id>.json, whether or not that file still exists
write_job_file(p) ==
    /\ bcall[p].op # "none"
    /\ bfile' = Modified(bcall[p], bcall[p].data)
    /\ bcall' = [bcall EXCEPT ![p] = NoCall]
    /\ UNCHANGED <<btask, bdel>>

\* POST /verify/batch: create_job, then add_task(process_batch_job, ...)
create_job ==
    /\ btask.pc = "none"
    /\ bfile' = NewJob
    /\ btask' = [btask EXCEPT !.pc = "start"]
    /\ UNCHANGED <<bcall, bdel>>

\* process_batch_job: job_manager.update_job(job_id, status=PROCESSING)
task_start ==
    /\ btask.pc = "start"
    /\ update_job("task", "processing", NoSummary, NULL)
    /\ btask' = [btask EXCEPT !.pc = "init"]
    /\ UNCHANGED <<bfile, bdel>>

\* validator = LabelValidator(timeout=ocr_timeout); on RuntimeError the job
\* is marked failed and the task returns
task_init ==
    /\ btask.pc = "init" /\ bcall["task"] = NoCall
    /\ \E built \in BOOLEAN :
          IF built
            THEN /\ btask' = [btask EXCEPT !.pc = "image"]
                 /\ UNCHANGED bcall
            ELSE /\ update_job("task", "failed", NoSummary, Unavailable)
                 /\ btask' = [btask EXCEPT !.pc = "done"]
    /\ UNCHANGED <<bfile, bdel>>

\* the body of `for i, image_path in enumerate(image_files, 1)` up to the
\* result: validator.validate_label(...) returns a result, or something
\* raises and the except branch builds error_result.  Nothing here reads
\* the job.
task_validate ==
    /\ btask.pc = "image" /\ bcall["task"] = NoCall
    /\ \E s \in ImageResults :
          btask' = [btask EXCEPT !.pc = "append",
                                 !.result = [image |-> btask.i, status |-> s]]
    /\ UNCHANGED <<bfile, bcall, bdel>>

\* job_manager.append_result(job_id, result), and the loop goes on to the
\* next image or ends
task_append ==
    /\ btask.pc = "append"
    /\ append_result("task", btask.result)
    /\ btask' = [btask EXCEPT !.pc = IF btask.i = MaxImages
                                       THEN "final" ELSE "image",
                              !.i = @ + 1,
                              !.result = NoResult]
    /\ UNCHANGED <<bfile, bdel>>

\* job = job_manager.get_job(job_id); if not job: return; summary = {...}
task_final ==
    /\ btask.pc = "final" /\ bcall["task"] = NoCall
    /\ btask' = IF bfile = NoFile
                  THEN [btask EXCEPT !.pc = "done"]
                  ELSE [btask EXCEPT
                          !.pc = "complete",
                          !.summary =
                             [total |-> Len(bfile.results),
                              errors |-> Cardinality(
                                 {k \in DOMAIN bfile.results :
                                    bfile.results[k].status = "ERROR"})]]
    /\ UNCHANGED <<bfile, bcall, bdel>>

\* job_manager.update_job(job_id, status=COMPLETED, summary=summary)
task_complete ==
    /\ btask.pc = "complete"
    /\ update_job("task", "completed", btask.summary, NULL)
    /\ btask' = [btask EXCEPT !.pc = "done", !.summary = NoSummary]
    /\ UNCHANGED <<bfile, bdel>>

process_batch_job ==
    \/ task_start
    \/ task_init
    \/ task_validate
    \/ task_append
    \/ task_final
    \/ task_complete
    \/ write_job_file("task")

\* DELETE /verify/batch/{job_id}: job = job_manager.get_job(job_id); 404 if
\* there is none
delete_get ==
    /\ bdel.pc = "idle"
    /\ bdel' = IF bfile = NoFile
                 THEN [pc |-> "idle", job |-> NoFile]
                 ELSE [pc |-> IF bfile.status \in {"pending", "processing"}
                                THEN "cancel" ELSE "delete",
                       job |-> bfile]
    /\ UNCHANGED <<bfile, bcall, btask>>

\* job_manager.update_job(job_id, status=JobStatus.CANCELLED)
delete_cancel ==
    /\ bdel.pc = "cancel"
    /\ update_job("api", "cancelled", NoSummary, NULL)
    /\ bdel' = [bdel EXCEPT !.pc = "delete"]
    /\ UNCHANGED <<bfile, btask>>

\* success = job_manager.delete_job(job_id): unlink, or False (then 500)
\* when the file is not there
delete_job ==
    /\ bdel.pc = "delete" /\ bcall["api"] = NoCall
    /\ bdel' = [bdel EXCEPT !.pc = IF bfile = NoFile THEN "error" ELSE "done"]
    /\ bfile' = NoFile
    /\ UNCHANGED <<bcall, btask>>

delete_batch_job ==
    \/ delete_get
    \/ delete_cancel
    \/ write_job_file("api")
    \/ delete_job

\* One batch job, its background task and one DELETE request for it.
NextBatch ==
    \/ create_job /\ UNCHANGED <<qvars, gvars, lvars>>
    \/ process_batch_job /\ UNCHANGED <<qvars, gvars, lvars>>
    \/ delete_batch_job /\ UNCHANGED <<qvars, gvars, lvars>>

SpecBatch == Init /\ [][NextBatch]_vars

\* ========================================================================
\* Properties
\* ========================================================================
\* ------------------------------------------------------------------------
\* C1: concurrent dequeue() calls never hand the same job to two callers:
\* no two processes hold a claim on the same job id at once.
\* ------------------------------------------------------------------------
C1_NoDoubleClaim ==
    \A w1, w2 \in Workers :
        (w1 # w2 /\ pc[w1] = "process_job" /\ pc[w2] = "process_job")
            => job[w1].id # job[w2].id

\* ------------------------------------------------------------------------
\* C2: in every reachable state every job has attempts <= max_attempts.
\* ------------------------------------------------------------------------
C2_AttemptsWithinMax ==
    \A j \in DOMAIN jobs : jobs[j].attempts <= jobs[j].max_attempts

\* ------------------------------------------------------------------------
\* C3: a job whose status is completed, failed or cancelled keeps that
\* status in every later step; it can only be deleted.
\* ------------------------------------------------------------------------
C3_TerminalIsFinal ==
    [][\A j \in DOMAIN jobs :
          jobs[j].status \in Terminal =>
              (j \notin DOMAIN jobs' \/ jobs'[j].status = jobs[j].status)]_vars

\* ------------------------------------------------------------------------
\* C4: once cancel(job_id) has returned True, and so set the job to
\* cancelled, the job reads as cancelled (until the sweep deletes it) and
\* no dequeue() that finishes afterwards returns it.
\* ------------------------------------------------------------------------
C4_CancelIsAuthoritative ==
    [][\A j \in DOMAIN jobs :
          jobs[j].status = "cancelled" =>
              /\ j \in DOMAIN jobs' => jobs'[j].status = "cancelled"
              /\ \A w \in Workers :
                    (pc[w] = "dequeue_update" /\ pc'[w] = "process_job")
                        => job'[w].id # j]_vars

\* ------------------------------------------------------------------------
\* C5: cancel(job_id) returns True and sets status to cancelled exactly
\* when the job is pending; otherwise it returns False and changes no row.
\* A job becomes cancelled only from pending.
\* ------------------------------------------------------------------------
C5_CancelStep(j) ==
    IF Exists(j) /\ jobs[j].status = "pending"
      THEN /\ ret'.val = 1
           /\ DOMAIN jobs' = DOMAIN jobs
           /\ jobs'[j].status = "cancelled"
           /\ \A f \in DOMAIN jobs[j] \ {"status", "updated_at"} :
                 jobs'[j][f] = jobs[j][f]
           /\ \A k \in DOMAIN jobs \ {j} : jobs'[k] = jobs[k]
      ELSE /\ ret'.val = 0
           /\ jobs' = jobs

C5_CancelOnlyFromPending ==
    [][/\ \A j \in Ids :
             (ret'.op = "cancel" /\ ret'.arg = j) => C5_CancelStep(j)
       /\ \A j \in DOMAIN jobs \cap DOMAIN jobs' :
             (jobs'[j].status = "cancelled" /\ jobs[j].status # "cancelled")
                 => (jobs[j].status = "pending" /\ ret'.op = "cancel")]_vars

\* cancel() has just returned False on a processing job, and another job
\* was cancelled from pending before
C5_Witness ==
    /\ ret.op = "cancel" /\ ret.val = 0
    /\ Exists(ret.arg) /\ jobs[ret.arg].status = "processing"
    /\ \E k \in DOMAIN jobs : jobs[k].status = "cancelled"

\* ------------------------------------------------------------------------
\* C6: the job dequeue() selects and returns is pending and has the
\* smallest created_at of all pending jobs; of two pending jobs the one
\* enqueued first is claimed first.
\* ------------------------------------------------------------------------
C6_SelectStep(w) ==
    LET j == row'[w].id
    IN  /\ j \in Pending
        /\ \A k \in Pending : /\ jobs[j].created_at <= jobs[k].created_at
                              /\ j <= k

C6_OldestPendingFirst ==
    [][\A w \in Workers :
          /\ (pc[w] = "idle" /\ pc'[w] = "dequeue_update") => C6_SelectStep(w)
          /\ (pc[w] = "idle" /\ pc'[w] = "idle" /\ job'[w] # job[w]) => Pending = {}
          /\ (pc[w] = "dequeue_update" /\ pc'[w] = "process_job")
                => job'[w].id = row[w].id]_vars

\* job A (id 1) has been returned by dequeue() while job B (id 2), enqueued
\* later, was pending too and still is
C6_Witness ==
    \E w \in Workers :
        /\ pc[w] = "process_job" /\ job[w].id = 1
        /\ Exists(1) /\ jobs[1].status = "processing" /\ jobs[1].attempts = 1
        /\ Exists(2) /\ jobs[2].status = "pending" /\ jobs[2].attempts = 0
        /\ jobs[1].created_at < jobs[2].created_at
        /\ jobs[2].created_at <= jobs[1].updated_at

\* ------------------------------------------------------------------------
\* C7: a job has status failed only if its attempts equals max_attempts.
\* ------------------------------------------------------------------------
C7_FailedOnlyAtCeiling ==
    \A j \in DOMAIN jobs :
        jobs[j].status = "failed" => jobs[j].attempts = jobs[j].max_attempts

\* ------------------------------------------------------------------------
\* C8: with one worker driving claim/report cycles on a job with
\* max_attempts = N: a job that is completed after k failed claims has
\* attempts = k + 1 <= N; a job whose N claims all failed is failed with
\* attempts = N and the last failure message as error, it stays so, and no
\* dequeue() returns it any more.
\* ------------------------------------------------------------------------
C8_Outcome(j) ==
    /\ jobs[j].status = "completed" =>
          /\ jobs[j].attempts = nfail[j] + 1
          /\ jobs[j].attempts <= jobs[j].max_attempts
    /\ jobs[j].status = "failed" =>
          /\ jobs[j].attempts = jobs[j].max_attempts
          /\ nfail[j] = jobs[j].max_attempts
          /\ jobs[j].error \in TwoErrors
          /\ \A w \in Workers : pc[w] # "idle" => (row[w].id # j /\ job[w].id # j)

C8_ClaimReportCycles ==
    /\ [](\A j \in DOMAIN jobs : C8_Outcome(j))
    /\ [][/\ \A j \in DOMAIN jobs :
                jobs[j].status = "failed" =>
                    (j \notin DOMAIN jobs' \/ jobs'[j] = jobs[j])
          /\ \A j \in DOMAIN jobs \cap DOMAIN jobs' : \A w \in Workers :
                (jobs[j].status # "failed" /\ jobs'[j].status = "failed"
                    /\ pc[w] = "fail_update" /\ pc'[w] = "idle")
                  => jobs'[j].error = errarg[w]]_vars

\* scenario 1 (two failed claims, the third completes) and scenario 2 (all
\* claims fail) have both run to their end
C8_Witness ==
    \E a, b \in DOMAIN jobs :
        /\ jobs[a].status = "completed" /\ nfail[a] = 2
        /\ jobs[a].attempts = 3
        /\ jobs[b].status = "failed" /\ jobs[b].attempts = max_attempts
        /\ jobs[b].error = "boom"

\* ------------------------------------------------------------------------
\* C9: cleanup_old_jobs(retention) deletes a job if and only if the job is
\* terminal and its completed_at is older than the retention window.
\* ------------------------------------------------------------------------
C9_DeletesByCompletedAt ==
    [][ret'.op = "cleanup" =>
          \A j \in DOMAIN jobs :
              (j \notin DOMAIN jobs') <=>
                  /\ jobs[j].status \in Terminal
                  /\ jobs[j].completed_at # NullTime
                  /\ jobs[j].completed_at < now - ret'.arg]_vars

\* C9 as amended: cleanup_old_jobs(retention) deletes a job if and only if
\* the job is terminal and its updated_at is older than the retention
\* window (the time of completion, of the final failure, or of the cancel);
\* the returned count is the number of jobs deleted.
C9_DeletesByUpdatedAt ==
    [][ret'.op = "cleanup" =>
          /\ \A j \in DOMAIN jobs :
                (j \notin DOMAIN jobs') <=>
                    /\ jobs[j].status \in Terminal
                    /\ jobs[j].updated_at < now - ret'.arg
          /\ \A j \in DOMAIN jobs' : j \in DOMAIN jobs /\ jobs'[j] = jobs[j]
          /\ ret'.val = Cardinality(DOMAIN jobs \ DOMAIN jobs')]_vars

\* the sweep has just deleted one job and kept a cancelled job that is
\* still inside the window
C9_Witness ==
    /\ ret.op = "cleanup" /\ ret.val = 1
    /\ \E k \in DOMAIN jobs : jobs[k].status = "cancelled"

C11_Inside == {c \in Callers : epc[c] \in {"locked", "chat", "except"}}

C11_OneHolder ==
    /\ [](/\ Cardinality(C11_Inside) <= 1
          /\ \A c \in C11_Inside : lock = c)
    /\ [][\A c \in Callers :
             (epc[c] = "gate" /\ lock # NULL) =>
                 /\ epc'[c] # "locked"
                 /\ lock' # c
                 /\ epc'[c] # "gate" =>
                       /\ epc'[c] = "idle"
                       /\ out'[c] = Returned(FALSE, "busy", "busy")]_vars

\* one caller is inside the chat call and the other has returned busy
C11_Witness ==
    \E h, c \in Callers :
        /\ h # c /\ lock = h /\ epc[h] = "chat"
        /\ epc[c] = "idle" /\ out[c].error_type = "busy"

C13_ReleasedOnExit ==
    /\ lock \in Callers \cup {NULL}
    /\ \A c \in Callers : epc[c] \in {"idle", "gate"} => lock # c

\* one call ended by an exception leaving it, another by a classified
\* failure, and the lock is free
C13_Witness ==
    \E a, b \in Callers :
        /\ epc[a] = "idle" /\ out[a].kind = "raise" /\ sent[a] = 1
        /\ epc[b] = "idle" /\ out[b].error_type = "connection" /\ sent[b] = 1
        /\ lock = NULL

\* ------------------------------------------------------------------------
\* C14: the worker's handling of every claim results in exactly one
\* effective outcome report, one complete or one fail, before it dequeues
\* again, and the pipeline runs at most once per claim.
\* ------------------------------------------------------------------------
C14_ExactlyOneReport ==
    /\ [](\A w \in Workers : nreport[w] <= 1 /\ nrun[w] <= 1)
    /\ [][\A w \in Workers :
             (stage[w] \notin {"top", "exited"}
                 /\ stage'[w] \in {"top", "exited"})
               => nreport'[w] = 1]_vars

\* ------------------------------------------------------------------------
\* C15: when the inference step of a claimed job fails (timeout, backend
\* unreachable, gate busy, backend not ready) the worker reports the job
\* through fail(): the job is not recorded as completed.
\* ------------------------------------------------------------------------
C15_FailedInferenceIsFailed ==
    [][\A w \in Workers : \A j \in DOMAIN jobs \cap DOMAIN jobs' :
          (stage[w] = "result" /\ job[w].id = j /\ ocr[w] \in OcrFailures
              /\ stage'[w] # "result")
            => /\ jobs'[j].status # "completed"
               /\ pc'[w] \in {"process_job", "fail_update"}]_vars

\* ------------------------------------------------------------------------
\* C16: no exception raised while the worker handles a claimed job, by
\* complete, by fail or by the client construction, ends the worker loop.
\* ------------------------------------------------------------------------
C16_LoopNeverExits ==
    \A w \in Workers : stage[w] # "exited"

\* ------------------------------------------------------------------------
\* C17: a job left in processing by a worker that was killed before it
\* called complete or fail does not stay in processing forever once a
\* worker is running again.
\* ------------------------------------------------------------------------
C17_OrphanRevisited ==
    \A j \in Ids :
        (/\ Exists(j) /\ jobs[j].status = "processing"
         /\ \A w \in Deployed : stage[w] = "killed")
          ~> (~Exists(j) \/ jobs[j].status # "processing")

\* ------------------------------------------------------------------------
\* C18: every failure extract_text returns carries exactly one failure
\* class: timeout, connection, busy-upstream (the readiness check failed),
\* error, or busy (the gate wait ran out); the readiness failure carries
\* busy-upstream and is returned before the gate is taken or the backend
\* contacted.
\* ------------------------------------------------------------------------
C18_EveryFailureClassified ==
    \A c \in Callers :
        (out[c].kind = "return" /\ ~out[c].success) =>
            /\ out[c].error_type \in
                   {"timeout", "connection", "busy-upstream", "error", "busy"}
            /\ out[c].error = "not ready" =>
                   (out[c].error_type = "busy-upstream" /\ sent[c] = 0)

\* ------------------------------------------------------------------------
\* C19: a backend call that fails in the connect phase (unreachable,
\* refused, or the connect attempt timing out) is classified connection.
\* ------------------------------------------------------------------------
C19_ConnectFailureIsConnection ==
    [][\A c \in Callers :
          (epc[c] = "except" /\ epc'[c] # "except"
              /\ exc[c].phase = "connect")
            => out'[c].error_type = "connection"]_vars

C21_RequeuedByUpdatedAt ==
    [][\A w \in Workers :
          (pc[w] = "idle" /\ pc'[w] = "dequeue_update") =>
              \A j, k \in Pending :
                  (/\ jobs[j].attempts > 0 /\ jobs[k].attempts = 0
                   /\ k > j
                   /\ jobs[k].created_at < jobs[j].updated_at)
                    => row'[w].id # j]_vars

\* C21 as amended: a job requeued by fail() keeps its place in the claim
\* order, which is by created_at: it is claimed before every pending job
\* that was enqueued after it was created, also one enqueued before the
\* requeue, so the retry is the next claim unless an older job is pending.
C21_RequeuedKeepsPlace ==
    [][\A w \in Workers :
          (pc[w] = "idle" /\ pc'[w] = "dequeue_update") =>
              \A j, k \in Pending :
                  (jobs[j].attempts > 0 /\ k > j) => row'[w].id # k]_vars

\* job 1 failed once, was requeued after job 2 had been enqueued, and has
\* been claimed again while job 2 is still waiting for its first claim
C21_Witness ==
    \E w \in Workers :
        /\ pc[w] = "process_job" /\ job[w].id = 1 /\ job[w].attempts = 2
        /\ nfail[1] = 1
        /\ Exists(2) /\ jobs[2].status = "pending" /\ jobs[2].attempts = 0
        /\ Exists(1) /\ jobs[2].updated_at < jobs[1].updated_at

\* ------------------------------------------------------------------------
\* C22: complete(job_id, result) on a claimed job sets status to completed,
\* stores the result, sets error to null even if an earlier failed attempt
\* recorded one, and stamps completed_at; afterwards the stored result is
\* what get(job_id) returns, and result is non-null only for jobs whose
\* status is completed.
\* ------------------------------------------------------------------------
C22_CompleteStep(w) ==
    /\ pc[w] = "process_job" /\ pc'[w] = "idle"
    /\ Exists(job[w].id)

C22_ResultOnlyWhenCompleted ==
    /\ [][\A w \in Workers :
             C22_CompleteStep(w) =>
                 LET j == job[w].id IN
                 /\ jobs'[j].status = "completed"
                 /\ jobs'[j].result \in Results
                 /\ jobs'[j].error = NULL
                 /\ jobs'[j].completed_at = now]_vars
    /\ [](\A j \in DOMAIN jobs :
             jobs[j].result # NULL => jobs[j].status = "completed")

\* ------------------------------------------------------------------------
\* C23: enqueue adds exactly one new job with a fresh id, status pending,
\* attempts 0 and max_attempts equal to the store's configured ceiling,
\* raises the pending count by one and leaves every existing job unchanged;
\* a job's id and max_attempts never change under any later operation.
\* ------------------------------------------------------------------------
C23_EnqueueStep == nextId' # nextId

C23_EnqueueAddsOnePending ==
    [][/\ C23_EnqueueStep =>
             /\ nextId \notin DOMAIN jobs
             /\ DOMAIN jobs' = DOMAIN jobs \cup {nextId}
             /\ jobs'[nextId].id = nextId
             /\ jobs'[nextId].status = "pending"
             /\ jobs'[nextId].attempts = 0
             /\ jobs'[nextId].max_attempts = max_attempts
             /\ Cardinality({j \in DOMAIN jobs' : jobs'[j].status = "pending"})
                  = Cardinality(Pending) + 1
             /\ \A j \in DOMAIN jobs : jobs'[j] = jobs[j]
       /\ \A j \in DOMAIN jobs \cap DOMAIN jobs' :
             /\ jobs'[j].id = j /\ jobs[j].id = j
             /\ jobs'[j].max_attempts = jobs[j].max_attempts]_vars

\* job 2 has just been enqueued, at a later time, beside a claimed job 1
C23_Witness ==
    /\ nextId = 3 /\ Exists(1) /\ Exists(2)
    /\ jobs[1].status = "processing" /\ jobs[1].attempts = 1
    /\ jobs[2].status = "pending" /\ jobs[2].attempts = 0
    /\ jobs[2].created_at = 1 /\ jobs[2].updated_at = 1
    /\ jobs[1].updated_at = 0

\* ------------------------------------------------------------------------
\* C24: dequeue returns None exactly when no job is pending and then
\* changes nothing; otherwise it moves exactly one job from pending to
\* processing, increments that job's attempts by exactly 1, lowers the
\* pending count by one, leaves all other jobs unchanged, and the returned
\* record shows the same status and attempts as the stored row.
\* ------------------------------------------------------------------------
\* the SELECT finds a row (the alternative returns None with nothing written)
C24_FindsRow(w) == pc[w] = "idle" /\ pc'[w] = "dequeue_update"

C24_ReturnsJob(w) == pc[w] = "dequeue_update" /\ pc'[w] = "process_job"

C24_DequeueClaimsOnePending ==
    [][\A w \in Workers :
          /\ C24_ReturnsJob(w) =>
                LET j == job'[w].id IN
                /\ j \in Pending
                /\ jobs'[j].status = "processing"
                /\ jobs'[j].attempts = jobs[j].attempts + 1
                /\ Cardinality({k \in DOMAIN jobs' :
                                  jobs'[k].status = "pending"})
                     = Cardinality(Pending) - 1
                /\ DOMAIN jobs' = DOMAIN jobs
                /\ \A k \in DOMAIN jobs \ {j} : jobs'[k] = jobs[k]
                /\ job'[w].status = jobs'[j].status
                /\ job'[w].attempts = jobs'[j].attempts
          /\ C24_FindsRow(w) => Pending # {} /\ jobs' = jobs
          /\ (pc[w] = "idle" /\ Pending = {}) => ~C24_FindsRow(w)]_vars

\* ------------------------------------------------------------------------
\* C26: after a claimed job fails with a timeout- or connection-class
\* error the worker discards its validator before the next job and builds
\* a fresh one when the next job is claimed; after failures of any other
\* class, and after successes, the same validator is reused; a failed
\* construction fails that job through fail() and the construction is
\* attempted again on the next claimed job.
\* ------------------------------------------------------------------------
C26_TransportFailure(w) ==
    \/ ocr[w] \in {"timeout", "connection"}
    \/ stage[w] = "except" /\ discards_validator(err[w])

\* the handling of the claimed job ends and the loop is back at its top
C26_Handled(w) ==
    stage[w] \in {"result", "except"} /\ stage'[w] \in {"top", "failing"}

C26_ClientRebuiltAfterTransportFailure ==
    [][\A w \in Deployed :
          /\ C26_Handled(w) =>
                validator'[w] = IF C26_TransportFailure(w)
                                  THEN FALSE ELSE validator[w]
          /\ (stage[w] = "claimed" /\ ~validator[w] /\ stage'[w] = "ready")
                => validator'[w]
          /\ (stage[w] = "claimed" /\ validator[w] /\ stage'[w] # "claimed")
                => validator'[w] /\ stage'[w] = "ready"
          /\ (stage[w] = "init_failed" /\ stage'[w] \in {"top", "failing"})
                => /\ ~validator'[w]
                   /\ Exists(job[w].id) => pc'[w] = "fail_update"]_vars

\* ------------------------------------------------------------------------
\* C29: with a worker that keeps running and is scheduled fairly, every
\* enqueued job (none is cancelled here) eventually reaches completed or
\* failed, after at most max_attempts claims; no job stays pending or
\* processing forever, whatever the other jobs do, an always-failing older
\* or newer job included.
\* ------------------------------------------------------------------------
C29_Settled(j) ==
    Exists(j) /\ jobs[j].status \in {"completed", "failed"}

\* the worker process has ended (an exception of fail() left the loop)
C29_WorkerGone == \E w \in Deployed : stage[w] = "exited"

C29_EveryJobSettles ==
    /\ \A j \in Ids : Exists(j) ~> (C29_Settled(j) \/ C29_WorkerGone)
    /\ [](\A j \in DOMAIN jobs : jobs[j].attempts <= jobs[j].max_attempts)

\* job 1 failed on every claim and is failed at the ceiling; job 2, enqueued
\* beside it, has been claimed and completed by the same running worker
C29_Witness ==
    /\ ~C29_WorkerGone
    /\ Exists(1) /\ jobs[1].status = "failed"
    /\ jobs[1].attempts = max_attempts /\ nfail[1] = max_attempts
    /\ Exists(2) /\ jobs[2].status = "completed" /\ jobs[2].attempts = 1

\* ------------------------------------------------------------------------
\* C27: update_job and append_result update a batch job atomically: when
\* two of these calls on the same job run concurrently, the stored job
\* afterwards reflects both updates (each call changes the job as it is
\* stored when the call writes, so no appended result and no status change
\* is lost), and processed_images equals the number of stored results.
\* ------------------------------------------------------------------------
C27_Writes(p) == bcall[p].op # "none" /\ bcall'[p].op = "none"

C27_AtomicUpdates ==
    /\ [][\A p \in BatchProcs :
             (C27_Writes(p) /\ bfile # NoFile) =>
                 bfile' = Modified(bcall[p], bfile)]_vars
    /\ [](bfile # NoFile => bfile.processed_images = Len(bfile.results))

\* ------------------------------------------------------------------------
\* C28: when a batch job is cancelled through DELETE while it is pending or
\* processing, no further image of that job is sent to inference once the
\* cancellation has been recorded.
\* ------------------------------------------------------------------------
C28_CancellationRecorded ==
    /\ bdel.pc \in {"delete", "done"} /\ bcall["api"] = NoCall
    /\ bdel.job.status \in {"pending", "processing"}

C28_SendsImage == btask.pc = "image" /\ btask'.pc = "append"

C28_StopsAfterCancel ==
    [][C28_CancellationRecorded => ~C28_SendsImage]_vars

\* ------------------------------------------------------------------------
\* C30: once delete_job has removed a batch job, the job stays absent: no
\* append_result or update_job call of the still-running batch task
\* re-creates the job file, and get_job keeps returning None.
\* ------------------------------------------------------------------------
C30_StaysDeleted ==
    [][(bdel.pc = "done" /\ bfile = NoFile) => bfile' = NoFile]_vars

====
